---- MODULE Spec2Model ----
(***************************************************************************)
(* JSflare: a dynamic-DNS client for Cloudflare.                           *)
(*                                                                         *)
(* The model follows the orchestrator of src/unnamed/part_001 (main,       *)
(* updateEntry, getOwnIp) running on the fetch-based client of             *)
(* src/src/config.ts lines 93-273 (class Cloudflare: constructor,          *)
(* getZones, getDnsRecords, updateDnsRecord, doRequest).                   *)
(* Further specifications follow validateConfig and loadConfig of          *)
(* src/unnamed/part_002 and the axios-based doRequest of                   *)
(* src/src/CF/Cloudflare.ts.                                               *)
(*                                                                         *)
(* JavaScript runs each piece of code between two awaits atomically, so    *)
(* an action is one such piece: it starts when a promise the code awaits   *)
(* settles (a fetch, the retry timer, the public-IP promise) and runs to   *)
(* the next await, the return or the throw.                                *)
(*                                                                         *)
(* Strings are tuples of one-character strings, so that toLowerCase and    *)
(* includes(":") are computed; an optional value is a tuple of length 0    *)
(* (null / undefined) or 1.                                                *)
(***************************************************************************)
EXTENDS Integers, Sequences, FiniteSets, TLC

VARIABLES
    items,       \* Config.items
    maxRetries,  \* Config.maxRetries
    timeout,     \* Config.timeout
    mainPc,      \* where main() is: "loadConfig", "loaded", "exited", "start", "awaitAll", "done", "crashed"; "test" for a direct doRequest call, "axios" for one of the axios client; "callLoadConfig", "readJsonc", "readJson" inside loadConfig(cfgPath)
    ipPromise,   \* the promise getOwnIp() returned: [state, value]
    ipFetches,   \* number of fetches getOwnIp has started
    ts,          \* per item: the state of its updateEntry call
    reported,    \* the tasks main has written an error line for, in order
    exitCode,    \* the exit code of the process, <<>> while it runs
    files,       \* the files readFile can read: path -> text
    load         \* the locals of loadConfig: cfgPath, configDir, rawConfig, the read awaited

vars == <<items, maxRetries, timeout, mainPc, ipPromise, ipFetches, ts, reported, exitCode,
          files, load>>

-----------------------------------------------------------------------------
(* Bounds of the model *)

NumTasks == 2
MaxRetries == 2
MaxZones == 2
MaxRecords == 2
MaxTimeout == 1
MaxAge == 2
MaxConfigItems == 1

(* Program constants *)

RETRY_DELAY == 5000
TIMEOUT_FACTOR == 60
AUTO_TTL == 1
MIN_TTL == 60
MAX_TTL == 86400

-----------------------------------------------------------------------------
(* Values *)

None == <<>>
Some(x) == <<x>>
IsNull(o) == Len(o) = 0
Val(o) == o[1]

\* String.prototype.includes for a one-character needle
Includes(s, c) == \E i \in DOMAIN s : s[i] = c

LowerChar(c) ==
    CASE c = "E" -> "e"
      [] c = "X" -> "x"
      [] c = "O" -> "o"
      [] c = "T" -> "t"
      [] OTHER -> c

\* String.prototype.toLowerCase
ToLowerCase(s) == [i \in DOMAIN s |-> LowerChar(s[i])]

SeqsUpTo(S, n) == UNION {[1..k -> S] : k \in 0..n}

IP4 == <<"1", ".", "2">>
IP6 == <<"a", ":", "b">>
PublicIps == {IP4, IP6}

SUPPORTED_RECORD_TYPES == {"A", "AAAA"}

\* Config items (TokenItem | EmailKeyItem)
ItemToken ==
    [token |-> Some(<<"t", "k">>), email |-> None, key |-> None,
     zone |-> <<"e", "x">>, record |-> <<"h">>, ttl |-> 1, proxied |-> FALSE]
ItemEmailKey ==
    [token |-> None, email |-> Some(<<"m">>), key |-> Some(<<"k">>),
     zone |-> <<"E", "x">>, record |-> <<"h">>, ttl |-> 300, proxied |-> TRUE]
ItemEmptyToken ==
    [token |-> Some(<<>>), email |-> None, key |-> None,
     zone |-> <<"e", "x">>, record |-> <<"h">>, ttl |-> 1, proxied |-> FALSE]
\* an item with the fields of both variants, the token left empty
ItemEmptyTokenWithKey ==
    [token |-> Some(<<>>), email |-> Some(<<"m">>), key |-> Some(<<"k">>),
     zone |-> <<"e", "x">>, record |-> <<"h">>, ttl |-> 1, proxied |-> FALSE]
ItemChoices == {ItemToken, ItemEmailKey, ItemEmptyToken, ItemEmptyTokenWithKey}

\* Zones the provider may return (CF_T.Zone)
ZonePool ==
    { [id |-> "z1", name |-> <<"e", "x">>],
      [id |-> "z2", name |-> <<"E", "X">>],
      [id |-> "z3", name |-> <<"o", "t">>] }
ZoneLists == SeqsUpTo(ZonePool, MaxZones)

\* DNS records the provider may return (CF_T.DnsRecord)
RecordPool ==
    { [id |-> "r1", name |-> <<"h">>, type |-> Some("A"), content |-> Some(IP4),
       ttl |-> 120, proxied |-> TRUE],
      [id |-> "r2", name |-> <<"h">>, type |-> Some("AAAA"), content |-> Some(IP6),
       ttl |-> 120, proxied |-> FALSE],
      [id |-> "r3", name |-> <<"h">>, type |-> Some("A"), content |-> None,
       ttl |-> 120, proxied |-> FALSE],
      [id |-> "r4", name |-> <<"h">>, type |-> Some("CNAME"), content |-> Some(<<"c">>),
       ttl |-> 120, proxied |-> TRUE],
      [id |-> "r5", name |-> <<"h">>, type |-> None, content |-> Some(IP4),
       ttl |-> 120, proxied |-> FALSE],
      [id |-> "r6", name |-> <<"o">>, type |-> Some("A"), content |-> Some(IP4),
       ttl |-> 120, proxied |-> FALSE] }
RecordLists == SeqsUpTo(RecordPool, MaxRecords)

-----------------------------------------------------------------------------
(* The client: class Cloudflare *)

\* isTokenItem: typeof item.token === "string"
isTokenItem(item) == ~IsNull(item.token)

\* Mutant of OptionsOf: every client is given the credential of the first item
OptionsOfFirstItem(item) ==
    [apiToken |-> IF isTokenItem(items[1]) THEN items[1].token ELSE None,
     apiEmail |-> IF isTokenItem(items[1]) THEN None ELSE items[1].email,
     apiKey |-> IF isTokenItem(items[1]) THEN None ELSE items[1].key,
     connectionOptions |-> [maxRetries |-> maxRetries, timeout |-> timeout]]

\* The options updateEntry passes to new Cloudflare(...)
OptionsOf(item) ==
    [apiToken |-> IF isTokenItem(item) THEN item.token ELSE None,
     apiEmail |-> IF isTokenItem(item) THEN None ELSE item.email,
     apiKey |-> IF isTokenItem(item) THEN None ELSE item.key,
     connectionOptions |-> [maxRetries |-> maxRetries, timeout |-> timeout]]

\* Mutant of verifyOptions: the length tests are dropped
verifyOptionsPresenceOnly(options) ==
    \/ ~IsNull(options.apiToken)
    \/ ~IsNull(options.apiEmail) /\ ~IsNull(options.apiKey)

\* verifyOptions: a non-empty apiToken, or a non-empty apiEmail and apiKey
verifyOptions(options) ==
    \/ ~IsNull(options.apiToken) /\ Len(Val(options.apiToken)) > 0
    \/ /\ ~IsNull(options.apiEmail) /\ ~IsNull(options.apiKey)
       /\ Len(Val(options.apiKey)) > 0 /\ Len(Val(options.apiEmail)) > 0

\* The authentication headers the constructor sets
HeadersOf(options) ==
    IF ~IsNull(options.apiToken)
    THEN [Authorization |-> Some(<<"Bearer", Val(options.apiToken)>>),
          XAuthEmail |-> None, XAuthKey |-> None]
    ELSE IF ~IsNull(options.apiEmail) /\ ~IsNull(options.apiKey)
    THEN [Authorization |-> None,
          XAuthEmail |-> options.apiEmail, XAuthKey |-> options.apiKey]
    ELSE [Authorization |-> None, XAuthEmail |-> None, XAuthKey |-> None]

\* The constructor's result for options that pass verifyOptions
NewCloudflare(options) ==
    [headers |-> HeadersOf(options),
     timeoutMs |-> options.connectionOptions.timeout * TIMEOUT_FACTOR,
     maxRetries |-> options.connectionOptions.maxRetries]

\* Array.prototype.find: the first element that passes the test, if any;
\* hits are the indices of the elements that pass
Find(seq, hits) ==
    IF hits = {} THEN None
    ELSE Some(seq[CHOOSE i \in hits : \A j \in hits : i <= j])

\* Mutant of ExactMatch: the names are compared as they are
ExactMatchCaseSensitive(zones, name) ==
    Find(zones, {i \in DOMAIN zones : zones[i].name = name})

\* getZones: zones.find(zone => zone.name.toLowerCase() === name.toLowerCase())
ExactMatch(zones, name) ==
    Find(zones, {i \in DOMAIN zones : ToLowerCase(zones[i].name) = ToLowerCase(name)})

\* Mutant of SelectRecord: the test on the type's value is dropped
SelectRecordAnyType(records) ==
    Find(records, {i \in DOMAIN records : ~IsNull(records[i].type)})

\* updateEntry: .find(rec => rec.type != null && SUPPORTED_RECORD_TYPES.includes(rec.type))
SelectRecord(records) ==
    Find(records, {i \in DOMAIN records :
                     /\ ~IsNull(records[i].type)
                     /\ Val(records[i].type) \in SUPPORTED_RECORD_TYPES})

\* Mutant of TypeOfIp: the content is not looked at
TypeOfIpIsA(ip) == "A"

\* updateDnsRecord: the type sent with the content
TypeOfIp(ip) == IF Includes(ip, ":") THEN "AAAA" ELSE "A"

\* updateDnsRecord: the body of the PUT (the comment carries only a timestamp)
PutBody(recData) ==
    [content |-> recData.ip, type |-> TypeOfIp(recData.ip), name |-> recData.name,
     ttl |-> recData.ttl, proxied |-> recData.proxied]

\* Mutant of RecDataOf: the published record's ttl and proxied are sent back
RecDataOfPublished(ip, record, item) ==
    [ip |-> ip, name |-> record.name, proxied |-> record.proxied, ttl |-> record.ttl]

\* updateEntry: the record data handed to updateDnsRecord
RecDataOf(ip, record, item) ==
    [ip |-> ip, name |-> record.name, proxied |-> item.proxied, ttl |-> item.ttl]

-----------------------------------------------------------------------------
(* One attempt of doRequest: what fetch and response.json() may do *)

Statuses == {200, 404, 500}

NetErr == [threw |-> TRUE, status |-> 0, json |-> FALSE]
Http(status, json) == [threw |-> FALSE, status |-> status, json |-> json]
AttemptOutcomes == {NetErr, Http(200, FALSE)} \cup {Http(st, TRUE) : st \in Statuses}

\* Response.ok
ResponseOk(r) == r.status >= 200 /\ r.status <= 299

\* The attempt ends in the catch block: fetch threw, the status is not ok,
\* or response.json() threw
AttemptFailed(r) == r.threw \/ ~ResponseOk(r) \/ ~r.json

-----------------------------------------------------------------------------
(* The state of one updateEntry call, and the code between its awaits.      *)
(* Each operator below maps the call's state s to its state at the next    *)
(* await, return or throw.                                                 *)

\* No file is read and loadConfig is not running (runs that start after it)
NoFiles == <<>>
NoLoad == [cfgPath |-> <<>>, configDir |-> None, pending |-> None, warned |-> FALSE,
           rawConfig |-> None, source |-> None]

NoRequest ==
    [type |-> "none", path |-> <<>>, params |-> None, body |-> None, headers |-> None,
     currentTry |-> 0, phase |-> "none", calls |-> 0, delays |-> 0, waitedMs |-> 0,
     last |-> None, received |-> None, elapsedMs |-> 0]

TaskInit ==
    [pc |-> "init", outcome |-> "none", error |-> "", options |-> None, client |-> None,
     zone |-> None, record |-> None, ip |-> None, req |-> NoRequest,
     updateCalls |-> 0, putsSent |-> 0, putBody |-> None, logs |-> <<>>,
     result |-> None, inFlight |-> 0, message |-> <<>>]

\* A direct call of doRequest keeps the request's counters for inspection;
\* inside updateEntry they are locals of a call that has ended
EndRequest(s) == IF s.pc = "doRequest" THEN s ELSE [s EXCEPT !.req = NoRequest]

\* The message of the Error that is thrown, as the parts of its template:
\* a literal text is a one-element tuple, an interpolated string its characters
MessageOf(s, err) ==
    CASE err = "InvalidOptions" ->
           <<<<"Options invalid! Has to provide either apiToken, or apiEmail and cloudflareTypes">>>>
      [] err = "ZoneNotFound" ->
           <<<<"Zone with name ">>, Val(s.req.params), <<" not found.">>>>
      [] err = "NoIP" ->
           <<<<"No IP found for ">>, Val(s.req.params), <<" in zone ">>, Val(s.zone).name>>
      [] err = "MaxRetries" ->
           <<<<"Request failed after maximum retries">>>>
      [] OTHER -> <<<<err>>>>

\* An exception leaves updateEntry (it has no try/catch): its promise rejects.
\* For a direct call of doRequest or of the constructor, the call throws.
Throw(s, err) ==
    IF s.pc = "doRequest"
    THEN [s EXCEPT !.pc = "threw", !.error = err, !.message = MessageOf(s, err)]
    ELSE IF s.pc = "new"
    THEN [s EXCEPT !.pc = "newThrew", !.error = err, !.message = MessageOf(s, err)]
    ELSE [EndRequest(s) EXCEPT !.pc = "settled", !.outcome = "failed", !.error = err,
                               !.message = MessageOf(s, err)]

\* updateEntry returns: its promise fulfils
Return(s, outcome, line) ==
    [EndRequest(s) EXCEPT !.pc = "settled", !.outcome = outcome,
                          !.logs = Append(@, line)]

\* Mutant of LoopHead: the first attempt is made whatever maxRetries is
LoopHeadAtLeastOnce(s, req) ==
    IF req.currentTry = 1 \/ req.currentTry <= Val(s.client).maxRetries
    THEN [s EXCEPT !.req = [req EXCEPT !.phase = "fetch", !.calls = @ + 1,
                                       !.last = None, !.elapsedMs = 0,
                                       !.headers = Some(Val(s.client).headers)],
                   !.putsSent = IF req.type = "PUT" THEN @ + 1 ELSE @,
                   !.inFlight = @ + 1]
    ELSE Throw([s EXCEPT !.req = [req EXCEPT !.phase = "none"]], "MaxRetries")

\* Mutant of LoopHead: one attempt more than maxRetries
LoopHeadOneMore(s, req) ==
    IF req.currentTry <= Val(s.client).maxRetries + 1
    THEN [s EXCEPT !.req = [req EXCEPT !.phase = "fetch", !.calls = @ + 1,
                                       !.last = None, !.elapsedMs = 0,
                                       !.headers = Some(Val(s.client).headers)],
                   !.putsSent = IF req.type = "PUT" THEN @ + 1 ELSE @,
                   !.inFlight = @ + 1]
    ELSE Throw([s EXCEPT !.req = [req EXCEPT !.phase = "none"]], "MaxRetries")

\* Mutant of LoopHead: the loop test is currentTry < maxRetries
LoopHeadStrict(s, req) ==
    IF req.currentTry < Val(s.client).maxRetries
    THEN [s EXCEPT !.req = [req EXCEPT !.phase = "fetch", !.calls = @ + 1,
                                       !.last = None, !.elapsedMs = 0,
                                       !.headers = Some(Val(s.client).headers)],
                   !.putsSent = IF req.type = "PUT" THEN @ + 1 ELSE @,
                   !.inFlight = @ + 1]
    ELSE Throw([s EXCEPT !.req = [req EXCEPT !.phase = "none"]], "MaxRetries")

\* doRequest, one turn of the loop from its head: the test currentTry <= maxRetries,
\* then either the next fetch (the state awaits it) or the throw after the loop.
\* req.last is the error the catch block holds; it is gone when the block is left.
LoopHead(s, req) ==
    IF req.currentTry <= Val(s.client).maxRetries
    THEN [s EXCEPT !.req = [req EXCEPT !.phase = "fetch", !.calls = @ + 1,
                                       !.last = None, !.elapsedMs = 0,
                                       !.headers = Some(Val(s.client).headers)],
                   !.putsSent = IF req.type = "PUT" THEN @ + 1 ELSE @,
                   !.inFlight = @ + 1]
    ELSE Throw([s EXCEPT !.req = [req EXCEPT !.phase = "none"]], "MaxRetries")

\* doRequest from its entry: let currentTry = 1, then the loop
doRequest(s, type, path, params, body) ==
    LoopHead(s, [NoRequest EXCEPT !.type = type, !.path = path, !.params = params,
                                  !.body = body, !.currentTry = 1])

\* getZones up to its await
getZones(s, name) == doRequest([s EXCEPT !.pc = "getZones"], "GET", <<"zones">>, Some(name), None)

\* getDnsRecords up to its await
getDnsRecords(s, zoneId, recordName) ==
    doRequest([s EXCEPT !.pc = "getDnsRecords"], "GET",
              <<"zones", zoneId, "dns_records">>, Some(recordName), None)

\* updateDnsRecord up to its await
updateDnsRecord(s, zoneId, recordId, recData) ==
    doRequest([s EXCEPT !.pc = "updateDnsRecord", !.updateCalls = @ + 1,
                        !.putBody = Some(PutBody(recData))],
              "PUT", <<"zones", zoneId, "dns_records", recordId>>, None,
              Some(PutBody(recData)))

\* new Cloudflare(options): the throw on invalid options, or the client
Constructor(s, options) ==
    IF ~verifyOptions(options)
    THEN Throw([s EXCEPT !.options = Some(options)], "InvalidOptions")
    ELSE [s EXCEPT !.options = Some(options), !.client = Some(NewCloudflare(options))]

\* updateEntry from its entry to its first await: the client, then getZones
UpdateEntryStart(s, item) ==
    LET made == Constructor(s, OptionsOf(item))
    IN  IF IsNull(made.client) THEN made ELSE getZones(made, item.zone)

\* Mutant of AfterGetZones: the zones are queried again when none matches
AfterGetZonesRetriesNotFound(s, item, zones) ==
    LET exactMatch == ExactMatch(zones, item.zone)
        warned == IF Len(zones) > 1 THEN [s EXCEPT !.logs = Append(@, "warn:multipleZones")]
                  ELSE s
    IN  IF IsNull(exactMatch)
        THEN getZones(s, item.zone)
        ELSE getDnsRecords([warned EXCEPT !.zone = exactMatch],
                           Val(exactMatch).id, item.record)

\* Mutant of AfterGetZones: more than one zone of the requested name is an error
AfterGetZonesAmbiguityFails(s, item, zones) ==
    LET exactMatch == ExactMatch(zones, item.zone)
        same == {i \in DOMAIN zones : ToLowerCase(zones[i].name) = ToLowerCase(item.zone)}
    IN  IF IsNull(exactMatch)
        THEN Throw(s, "ZoneNotFound")
        ELSE IF Cardinality(same) > 1
        THEN Throw(s, "ZoneAmbiguous")
        ELSE getDnsRecords([s EXCEPT !.zone = exactMatch], Val(exactMatch).id, item.record)

\* getZones after its request returned data, then updateEntry up to the
\* await in getDnsRecords
AfterGetZones(s, item, zones) ==
    LET exactMatch == ExactMatch(zones, item.zone)
        warned == IF Len(zones) > 1 THEN [s EXCEPT !.logs = Append(@, "warn:multipleZones")]
                  ELSE s
    IN  IF IsNull(exactMatch)
        THEN Throw(s, "ZoneNotFound")
        ELSE getDnsRecords([warned EXCEPT !.zone = exactMatch],
                           Val(exactMatch).id, item.record)

\* Mutant of AfterGetDnsRecords: the record is written before the public IP
\* is awaited
AfterGetDnsRecordsUpdatesFirst(s, item, records) ==
    LET record == SelectRecord(records)
    IN  IF IsNull(record)
        THEN Return(s, "skipped", "warn:noRecord")
        ELSE IF IsNull(Val(record).content)
        THEN Throw([s EXCEPT !.record = record], "NoIP")
        ELSE updateDnsRecord([s EXCEPT !.record = record], Val(s.zone).id, Val(record).id,
                             RecDataOf(Val(Val(record).content), Val(record), item))

\* Mutant of AfterGetDnsRecords: a record without content is skipped like a
\* missing record
AfterGetDnsRecordsSkipsNoContent(s, item, records) ==
    LET record == SelectRecord(records)
    IN  IF IsNull(record) \/ IsNull(Val(record).content)
        THEN Return(s, "skipped", "warn:noRecord")
        ELSE [EndRequest(s) EXCEPT !.pc = "awaitIp", !.record = record]

\* updateEntry after getDnsRecords returned, up to await ipPromise
AfterGetDnsRecords(s, item, records) ==
    LET record == SelectRecord(records)
    IN  IF IsNull(record)
        THEN Return(s, "skipped", "warn:noRecord")
        ELSE IF IsNull(Val(record).content)
        THEN Throw([s EXCEPT !.record = record], "NoIP")
        ELSE [EndRequest(s) EXCEPT !.pc = "awaitIp", !.record = record]

\* Mutant of AfterIp: the update is logged before the PUT is sent
AfterIpLogsFirst(s, item, ip) ==
    LET record == Val(s.record)
        seen == [s EXCEPT !.ip = Some(ip)]
    IN  IF Val(record.content) = ip
        THEN Return(seen, "uptodate", "info:upToDate")
        ELSE updateDnsRecord([seen EXCEPT !.logs = Append(@, "info:updated")],
                             Val(s.zone).id, record.id, RecDataOf(ip, record, item))

\* Mutant of AfterIp: the comparison with the record's content is dropped
AfterIpAlwaysUpdates(s, item, ip) ==
    updateDnsRecord([s EXCEPT !.ip = Some(ip)], Val(s.zone).id, Val(s.record).id,
                    RecDataOf(ip, Val(s.record), item))

\* updateEntry after ipPromise fulfilled with ip, up to the await in updateDnsRecord
AfterIp(s, item, ip) ==
    LET record == Val(s.record)
        seen == [s EXCEPT !.ip = Some(ip)]
    IN  IF Val(record.content) = ip
        THEN Return(seen, "uptodate", "info:upToDate")
        ELSE updateDnsRecord(seen, Val(s.zone).id, record.id, RecDataOf(ip, record, item))

\* updateEntry after updateDnsRecord returned
AfterUpdateDnsRecord(s) == Return(s, "updated", "info:updated")

\* What runs when doRequest returns its payload to its caller
AfterRequest(s, item, payload) ==
    CASE s.pc = "getZones" -> AfterGetZones(s, item, payload)
      [] s.pc = "getDnsRecords" -> AfterGetDnsRecords(s, item, payload)
      [] s.pc = "updateDnsRecord" -> AfterUpdateDnsRecord(s)
      [] OTHER -> [s EXCEPT !.pc = "returned", !.result = Some(payload)]

\* The bodies (data.result) a successful response may carry, by caller
Payloads(s) ==
    CASE s.pc = "getDnsRecords" -> RecordLists
      [] s.pc = "updateDnsRecord" -> {<<>>}
      [] OTHER -> ZoneLists

\* Mutant of AfterFetch: the catch block does not await the timer
AfterFetchNoDelay(s, item, r, payload) ==
    IF AttemptFailed(r)
    THEN LoopHead([s EXCEPT !.inFlight = @ - 1], [s.req EXCEPT !.currentTry = @ + 1])
    ELSE AfterRequest([s EXCEPT !.inFlight = @ - 1, !.req = [@ EXCEPT !.phase = "none", !.last = Some(r),
                                                  !.received = Some(payload),
                                                  !.elapsedMs = 0]],
                      item, payload)

\* Mutant of AfterFetch: a client error is thrown to the caller at once
AfterFetchClientErrorThrows(s, item, r, payload) ==
    IF ~AttemptFailed(r)
    THEN AfterRequest([s EXCEPT !.inFlight = @ - 1, !.req = [@ EXCEPT !.phase = "none", !.last = Some(r),
                                                  !.received = Some(payload),
                                                  !.elapsedMs = 0]],
                      item, payload)
    ELSE IF ~r.threw /\ r.status >= 400 /\ r.status < 500
    THEN Throw([s EXCEPT !.inFlight = @ - 1, !.req = [@ EXCEPT !.phase = "none", !.last = Some(r)]], "ClientError")
    ELSE [s EXCEPT !.inFlight = @ - 1, !.req = [@ EXCEPT !.phase = "delay", !.delays = @ + 1,
                                     !.last = Some(r), !.elapsedMs = 0]]

\* doRequest after the awaited fetch settled with outcome r and body payload:
\* return await response.json(), or the catch block up to its await of the timer
AfterFetch(s, item, r, payload) ==
    IF AttemptFailed(r)
    THEN [s EXCEPT !.inFlight = @ - 1, !.req = [@ EXCEPT !.phase = "delay", !.delays = @ + 1,
                                     !.last = Some(r), !.elapsedMs = 0]]
    ELSE AfterRequest([s EXCEPT !.inFlight = @ - 1, !.req = [@ EXCEPT !.phase = "none", !.last = Some(r),
                                                  !.received = Some(payload),
                                                  !.elapsedMs = 0]],
                      item, payload)

\* doRequest after the retry timer fired: currentTry++; continue
AfterDelay(s) ==
    LoopHead(s, [s.req EXCEPT !.currentTry = @ + 1, !.waitedMs = @ + RETRY_DELAY])

-----------------------------------------------------------------------------
(* The run: main, getOwnIp and the settling of the awaited promises *)

Tasks == DOMAIN items

NoPromise == [state |-> "none", value |-> None]

\* Mutant of AllSettled: Promise.all, which settles on the first rejection
AllFulfilledOrOneRejected ==
    \/ \A t \in Tasks : ts[t].pc = "settled"
    \/ \E t \in Tasks : ts[t].pc = "settled" /\ ts[t].outcome = "failed"

\* Promise.allSettled: every updateEntry promise has fulfilled or rejected
AllSettled == \A t \in Tasks : ts[t].pc = "settled"

\* Mutant of Rejected: a skipped item counts as rejected
RejectedOrSkipped(t) == ts[t].outcome \in {"failed", "skipped"}

\* results.filter(r => r.status === "rejected"), in the order of items
Rejected(t) == ts[t].outcome = "failed"
RECURSIVE RejectedUpTo(_)
RejectedUpTo(n) ==
    IF n = 0 THEN <<>>
    ELSE IF n \in Tasks /\ Rejected(n) THEN Append(RejectedUpTo(n - 1), n)
    ELSE RejectedUpTo(n - 1)

\* A rejection of ipPromise is handled only if an updateEntry already awaits it
IpHandled == \E t \in Tasks : ts[t].pc = "awaitIp"

\* The process after loadConfig returned a configuration of n items
InitWith(n) ==
    /\ items \in [1..n -> ItemChoices]
    /\ maxRetries \in 0..MaxRetries
    /\ timeout \in 1..MaxTimeout
    /\ mainPc = "start"
    /\ ipPromise = NoPromise
    /\ ipFetches = 0
    /\ ts = [t \in 1..n |-> TaskInit]
    /\ reported = <<>>
    /\ exitCode = None
    /\ files = NoFiles
    /\ load = NoLoad

Init == InitWith(NumTasks)

\* Mutant of Main: getOwnIp() is called inside items.map, once per item
MainFetchesPerItem ==
    /\ mainPc = "start"
    /\ ipPromise' = [state |-> "pending", value |-> None]
    /\ ipFetches' = ipFetches + Len(items)
    /\ ts' = [t \in Tasks |-> UpdateEntryStart(ts[t], items[t])]
    /\ mainPc' = "awaitAll"
    /\ UNCHANGED <<files, load, items, maxRetries, timeout, reported, exitCode>>

\* main up to await Promise.allSettled: getOwnIp() up to its fetch, then every
\* updateEntry(ownIp, item, ...) of items.map up to its first await
Main ==
    /\ mainPc = "start"
    /\ ipPromise' = [state |-> "pending", value |-> None]
    /\ ipFetches' = ipFetches + 1
    /\ ts' = [t \in Tasks |-> UpdateEntryStart(ts[t], items[t])]
    /\ mainPc' = "awaitAll"
    /\ UNCHANGED <<files, load, items, maxRetries, timeout, reported, exitCode>>

\* getOwnIp after its fetch settled: return data.ip, or the catch block's rethrow.
\* Node ends the process with code 1 on a rejection nobody handles.
\* main resumes from Promise.allSettled in the turn in which the last updateEntry
\* settles, so no fetch settles between that and the report.
GetOwnIpSettles ==
    /\ mainPc \in {"awaitAll", "done"}
    /\ mainPc = "awaitAll" => ~AllSettled
    /\ ipPromise.state = "pending"
    /\ \E r \in AttemptOutcomes, ip \in PublicIps :
         IF ~AttemptFailed(r)
         THEN /\ ipPromise' = [state |-> "fulfilled", value |-> Some(ip)]
              /\ exitCode' = IF mainPc = "done" THEN Some(0) ELSE exitCode
              /\ UNCHANGED mainPc
         ELSE /\ ipPromise' = [state |-> "rejected", value |-> None]
              /\ mainPc' = IF IpHandled THEN mainPc ELSE "crashed"
              /\ exitCode' = IF IpHandled THEN exitCode ELSE Some(1)
    /\ UNCHANGED <<files, load, items, maxRetries, timeout, ipFetches, ts, reported>>

\* A fetch of doRequest settles with a failure: the catch block
AttemptFails(t) ==
    /\ mainPc \in {"awaitAll", "test"}
    /\ ts[t].req.phase = "fetch"
    /\ \E r \in AttemptOutcomes :
         /\ AttemptFailed(r)
         /\ ts' = [ts EXCEPT ![t] = AfterFetch(ts[t], items[t], r, <<>>)]
    /\ UNCHANGED <<files, load, items, maxRetries, timeout, mainPc, ipPromise, ipFetches, reported, exitCode>>

\* A fetch of doRequest settles with a success: doRequest returns, its caller goes on
AttemptSucceeds(t) ==
    /\ mainPc \in {"awaitAll", "test"}
    /\ ts[t].req.phase = "fetch"
    /\ \E r \in AttemptOutcomes, payload \in Payloads(ts[t]) :
         /\ ~AttemptFailed(r)
         /\ ts' = [ts EXCEPT ![t] = AfterFetch(ts[t], items[t], r, payload)]
    /\ UNCHANGED <<files, load, items, maxRetries, timeout, mainPc, ipPromise, ipFetches, reported, exitCode>>

\* The retry timer of doRequest fires
DelayElapses(t) ==
    /\ mainPc \in {"awaitAll", "test"}
    /\ ts[t].req.phase = "delay"
    /\ ts' = [ts EXCEPT ![t] = AfterDelay(ts[t])]
    /\ UNCHANGED <<files, load, items, maxRetries, timeout, mainPc, ipPromise, ipFetches, reported, exitCode>>

\* updateEntry resumes from await ipPromise
IpObserved(t) ==
    /\ mainPc = "awaitAll"
    /\ ts[t].pc = "awaitIp"
    /\ ipPromise.state \in {"fulfilled", "rejected"}
    /\ ts' = [ts EXCEPT ![t] =
                IF ipPromise.state = "fulfilled"
                THEN AfterIp(ts[t], items[t], Val(ipPromise.value))
                ELSE Throw(ts[t], "OwnIp")]
    /\ UNCHANGED <<files, load, items, maxRetries, timeout, mainPc, ipPromise, ipFetches, reported, exitCode>>

\* main after Promise.allSettled: one console.error per rejected result; the
\* process ends with code 0 once nothing is pending
Report ==
    /\ mainPc = "awaitAll"
    /\ AllSettled
    /\ reported' = RejectedUpTo(Len(items))
    /\ mainPc' = "done"
    /\ exitCode' = IF ipPromise.state = "pending" THEN exitCode ELSE Some(0)
    /\ UNCHANGED <<files, load, items, maxRetries, timeout, ipPromise, ipFetches, ts>>

Next ==
    \/ Main
    \/ GetOwnIpSettles
    \/ \E t \in Tasks : AttemptFails(t)
    \/ \E t \in Tasks : AttemptSucceeds(t)
    \/ \E t \in Tasks : DelayElapses(t)
    \/ \E t \in Tasks : IpObserved(t)
    \/ Report

\* The run of NumTasks items. No code of the run reads a clock, so the passing
\* of time is left to SpecEntry and SpecRequest.
Spec == Init /\ [][Next]_vars

-----------------------------------------------------------------------------
(* The client used directly: new Cloudflare(options), then doRequest on the *)
(* constructed client, with time passing                                   *)

RequestTypes == {"GET", "PUT"}

\* The values a credential field of CloudflareOptions may hold: undefined,
\* the empty string, a non-empty string
CredentialChoices == {None, Some(<<>>), Some(<<"k">>)}

\* CloudflareOptions with the connection options of the configuration
OptionChoices ==
    [apiToken : CredentialChoices, apiEmail : CredentialChoices, apiKey : CredentialChoices,
     connectionOptions : {[maxRetries |-> maxRetries, timeout |-> timeout]}]

InitRequest ==
    /\ items \in [1..1 -> {ItemToken, ItemEmailKey}]
    /\ maxRetries \in 0..MaxRetries
    /\ timeout \in 1..MaxTimeout
    /\ mainPc = "test"
    /\ ipPromise = NoPromise
    /\ ipFetches = 0
    /\ ts = [t \in 1..1 |-> [TaskInit EXCEPT !.pc = "new"]]
    /\ reported = <<>>
    /\ exitCode = None
    /\ files = NoFiles
    /\ load = NoLoad

\* new Cloudflare(options), called directly
Construct(t) ==
    /\ mainPc = "test"
    /\ ts[t].pc = "new"
    /\ \E options \in OptionChoices :
         LET made == Constructor(ts[t], options)
         IN  ts' = [ts EXCEPT ![t] =
                      IF IsNull(made.client) THEN made
                      ELSE [made EXCEPT !.pc = "constructed"]]
    /\ UNCHANGED <<files, load, items, maxRetries, timeout, mainPc, ipPromise, ipFetches, reported, exitCode>>

CallDoRequest(t) ==
    /\ mainPc = "test"
    /\ ts[t].pc = "constructed"
    /\ \E type \in RequestTypes :
         ts' = [ts EXCEPT ![t] =
                  doRequest([ts[t] EXCEPT !.pc = "doRequest"], type, <<"zones">>,
                            IF type = "GET" THEN Some(items[t].zone) ELSE None,
                            IF type = "PUT" THEN Some(PutBody(RecDataOf(IP4, [name |-> items[t].record], items[t])))
                            ELSE None)]
    /\ UNCHANGED <<files, load, items, maxRetries, timeout, mainPc, ipPromise, ipFetches, reported, exitCode>>

\* Time passes while a fetch is pending: one more timeout period. The fetch of
\* doRequest is given no signal or timer, so nothing else happens.
TimePasses(t) ==
    /\ ts[t].req.phase = "fetch"
    /\ ts[t].req.elapsedMs < MaxAge * Val(ts[t].client).timeoutMs
    /\ ts' = [ts EXCEPT ![t].req.elapsedMs = @ + Val(ts[t].client).timeoutMs]
    /\ UNCHANGED <<files, load, items, maxRetries, timeout, mainPc, ipPromise, ipFetches, reported, exitCode>>

\* The run of a single item, with time passing
InitEntry == InitWith(1)

NextEntry == Next \/ \E t \in Tasks : TimePasses(t)

SpecEntry == InitEntry /\ [][NextEntry]_vars

NextRequest ==
    \/ \E t \in Tasks : Construct(t)
    \/ \E t \in Tasks : CallDoRequest(t)
    \/ \E t \in Tasks : AttemptFails(t)
    \/ \E t \in Tasks : AttemptSucceeds(t)
    \/ \E t \in Tasks : DelayElapses(t)
    \/ \E t \in Tasks : TimePasses(t)

SpecRequest == InitRequest /\ [][NextRequest]_vars

-----------------------------------------------------------------------------
(* The axios-based client of src/CF/Cloudflare.ts: doRequest called directly *)

\* The statuses a response to an axios request may carry
AxiosStatuses == {200, 201, 404, 500}

AxiosOutcomes == {NetErr} \cup {Http(st, TRUE) : st \in AxiosStatuses}

\* The promise of axios.get / axios.put: doRequest passes no validateStatus, so
\* the promise fulfils for a 2xx status and rejects for any other status and
\* for a network error
AxiosResolves(r) == ~r.threw /\ r.status >= 200 /\ r.status < 300

\* while(currentTry < this.maxRetries): the next request, or the throw after the loop
AxiosLoopHead(s, req) ==
    IF req.currentTry < Val(s.client).maxRetries
    THEN [s EXCEPT !.req = [req EXCEPT !.phase = "fetch", !.calls = @ + 1,
                                       !.last = None, !.elapsedMs = 0,
                                       !.headers = Some(Val(s.client).headers)],
                   !.putsSent = IF req.type = "PUT" THEN @ + 1 ELSE @,
                   !.inFlight = @ + 1]
    ELSE Throw([s EXCEPT !.req = [req EXCEPT !.phase = "none"]], "MaxRetries")

\* doRequest from its entry: let currentTry = 0, then the loop
axiosDoRequest(s, type, path, params, body) ==
    AxiosLoopHead(s, [NoRequest EXCEPT !.type = type, !.path = path, !.params = params,
                                       !.body = body, !.currentTry = 0])

\* doRequest after the awaited request settled with outcome r and body data:
\* a rejection leaves doRequest (it has no try/catch); a status other than 200
\* starts the timer; status 200 returns response.data
AfterAxios(s, r, data) ==
    IF ~AxiosResolves(r)
    THEN Throw([s EXCEPT !.inFlight = @ - 1,
                         !.req = [@ EXCEPT !.phase = "none", !.last = Some(r)]], "AxiosError")
    ELSE IF r.status # 200
    THEN [s EXCEPT !.inFlight = @ - 1,
                   !.req = [@ EXCEPT !.phase = "delay", !.delays = @ + 1, !.last = Some(r),
                                     !.received = Some(data), !.elapsedMs = 0]]
    ELSE [s EXCEPT !.inFlight = @ - 1, !.pc = "returned", !.result = Some(data),
                   !.req = [@ EXCEPT !.phase = "none", !.last = Some(r),
                                     !.received = Some(data), !.elapsedMs = 0]]

\* doRequest after the timer fired: currentTry++, then return response.data,
\* the statement that follows the if
AfterAxiosDelay(s) ==
    [s EXCEPT !.pc = "returned", !.result = s.req.received,
              !.req = [@ EXCEPT !.phase = "none", !.currentTry = @ + 1,
                                !.waitedMs = @ + RETRY_DELAY]]

InitAxios ==
    /\ items \in [1..1 -> {ItemToken, ItemEmailKey}]
    /\ maxRetries \in 0..MaxRetries
    /\ timeout \in 1..MaxTimeout
    /\ mainPc = "axios"
    /\ ipPromise = NoPromise
    /\ ipFetches = 0
    /\ ts = [t \in 1..1 |->
               [TaskInit EXCEPT !.pc = "constructed",
                                !.options = Some(OptionsOf(items[t])),
                                !.client = Some(NewCloudflare(OptionsOf(items[t])))]]
    /\ reported = <<>>
    /\ exitCode = None
    /\ files = NoFiles
    /\ load = NoLoad

CallAxiosDoRequest(t) ==
    /\ mainPc = "axios"
    /\ ts[t].pc = "constructed"
    /\ \E type \in RequestTypes :
         ts' = [ts EXCEPT ![t] =
                  axiosDoRequest([ts[t] EXCEPT !.pc = "doRequest"], type, <<"zones">>,
                                 IF type = "GET" THEN Some(items[t].zone) ELSE None,
                                 IF type = "PUT" THEN Some(PutBody(RecDataOf(IP4, [name |-> items[t].record], items[t])))
                                 ELSE None)]
    /\ UNCHANGED <<files, load, items, maxRetries, timeout, mainPc, ipPromise, ipFetches, reported, exitCode>>

\* The pending axios request settles
AxiosSettles(t) ==
    /\ mainPc = "axios"
    /\ ts[t].req.phase = "fetch"
    /\ \E r \in AxiosOutcomes, data \in ZoneLists :
         ts' = [ts EXCEPT ![t] = AfterAxios(ts[t], r, data)]
    /\ UNCHANGED <<files, load, items, maxRetries, timeout, mainPc, ipPromise, ipFetches, reported, exitCode>>

\* The retry timer of the axios doRequest fires
AxiosDelayElapses(t) ==
    /\ mainPc = "axios"
    /\ ts[t].req.phase = "delay"
    /\ ts' = [ts EXCEPT ![t] = AfterAxiosDelay(ts[t])]
    /\ UNCHANGED <<files, load, items, maxRetries, timeout, mainPc, ipPromise, ipFetches, reported, exitCode>>

NextAxios ==
    \/ \E t \in Tasks : CallAxiosDoRequest(t)
    \/ \E t \in Tasks : AxiosSettles(t)
    \/ \E t \in Tasks : AxiosDelayElapses(t)

SpecAxios == InitAxios /\ [][NextAxios]_vars

-----------------------------------------------------------------------------
(* loadConfig: the parsed configuration file goes through validateConfig.   *)
(* A JSON number is kept as the number of its halves, so that values that   *)
(* are not integers (0.5, 1.5, 60.5) are among the inputs; a value of       *)
(* another type is kept by its typeof.                                     *)

Num(h) == [kind |-> "number", halves |-> h]
NotANumber == [kind |-> "string", halves |-> 0]

\* v < k, v > k and v !== k for a JSON number v and an integer k
Lt(v, k) == v.halves < 2 * k
Gt(v, k) == v.halves > 2 * k
Differs(v, k) == v.halves # 2 * k

RawRetries == {Num(h) : h \in -2..3} \cup {NotANumber}
RawTimeouts == {Num(h) : h \in -1..2} \cup {NotANumber}
RawTtls ==
    {Num(h) : h \in {0, 2 * AUTO_TTL, 2 * AUTO_TTL + 1, 2 * MIN_TTL - 1, 2 * MIN_TTL,
                     2 * MIN_TTL + 1, 2 * MAX_TTL, 2 * MAX_TTL + 1}} \cup {NotANumber}

\* The items of the file: for each field its typeof ("absent" when the key is
\* missing), for ttl its value
RawItemKinds ==
    { [token |-> "string", email |-> "absent", key |-> "absent", zone |-> "string",
       record |-> "string", proxied |-> "boolean"],
      [token |-> "absent", email |-> "string", key |-> "string", zone |-> "string",
       record |-> "string", proxied |-> "boolean"],
      [token |-> "number", email |-> "absent", key |-> "absent", zone |-> "string",
       record |-> "string", proxied |-> "boolean"],
      [token |-> "absent", email |-> "string", key |-> "number", zone |-> "string",
       record |-> "string", proxied |-> "boolean"],
      [token |-> "string", email |-> "absent", key |-> "absent", zone |-> "string",
       record |-> "string", proxied |-> "string"] }
RawItems == {[kinds |-> k, ttl |-> v] : k \in RawItemKinds, v \in RawTtls}

\* validateConfig, the checks of one turn of its loop over config.items:
\* the name of the check that throws, "ok" if none does
ItemError(item) ==
    IF item.kinds.token # "absent" /\ item.kinds.token # "string" THEN "token"
    ELSE IF /\ item.kinds.token = "absent"
            /\ item.kinds.email # "absent" /\ item.kinds.key # "absent"
            /\ ( item.kinds.email # "string" \/ item.kinds.key # "string" )
    THEN "emailKey"
    ELSE IF item.kinds.zone # "string" THEN "zone"
    ELSE IF item.kinds.record # "string" THEN "record"
    ELSE IF \/ item.ttl.kind # "number"
            \/ Differs(item.ttl, AUTO_TTL) /\ ( Lt(item.ttl, MIN_TTL) \/ Gt(item.ttl, MAX_TTL) )
    THEN "ttl"
    ELSE IF item.kinds.proxied # "boolean" THEN "proxied"
    ELSE "ok"

\* Mutant of validateConfig: a timeout of zero is rejected
validateConfigPositiveTimeout(config) ==
    IF config.maxRetries.kind # "number" \/ Lt(config.maxRetries, 0) THEN "maxRetries"
    ELSE IF config.timeout.kind # "number" \/ ~Gt(config.timeout, 0) THEN "timeout"
    ELSE IF \E i \in DOMAIN config.items : ItemError(config.items[i]) # "ok"
    THEN ItemError(config.items[CHOOSE i \in DOMAIN config.items :
                                  /\ ItemError(config.items[i]) # "ok"
                                  /\ \A j \in 1..(i - 1) : ItemError(config.items[j]) = "ok"])
    ELSE "ok"

\* validateConfig: the name of the check that throws, "ok" if none does
\* (config.items is an array in every configuration of the model)
validateConfig(config) ==
    IF config.maxRetries.kind # "number" \/ Lt(config.maxRetries, 0) THEN "maxRetries"
    ELSE IF config.timeout.kind # "number" \/ Lt(config.timeout, 0) THEN "timeout"
    ELSE IF \E i \in DOMAIN config.items : ItemError(config.items[i]) # "ok"
    THEN ItemError(config.items[CHOOSE i \in DOMAIN config.items :
                                  /\ ItemError(config.items[i]) # "ok"
                                  /\ \A j \in 1..(i - 1) : ItemError(config.items[j]) = "ok"])
    ELSE "ok"

\* JSON.parse(stripComments(jsonc)): the object read from the file
ParsedConfig == [maxRetries |-> maxRetries, timeout |-> timeout, items |-> items]

InitConfig ==
    /\ items \in SeqsUpTo(RawItems, MaxConfigItems)
    /\ maxRetries \in RawRetries
    /\ timeout \in RawTimeouts
    /\ mainPc = "loadConfig"
    /\ ipPromise = NoPromise
    /\ ipFetches = 0
    /\ ts = [t \in DOMAIN items |-> TaskInit]
    /\ reported = <<>>
    /\ exitCode = None
    /\ files = NoFiles
    /\ load = NoLoad

\* loadConfig after the file was read: parseConfig returns the configuration
\* to main, or validateConfig throws and the catch block ends the process
LoadConfig ==
    /\ mainPc = "loadConfig"
    /\ IF validateConfig(ParsedConfig) = "ok"
       THEN mainPc' = "loaded" /\ UNCHANGED exitCode
       ELSE mainPc' = "exited" /\ exitCode' = Some(1)
    /\ UNCHANGED <<files, load, items, maxRetries, timeout, ipPromise, ipFetches, ts, reported>>

NextConfig == LoadConfig

SpecConfig == InitConfig /\ [][NextConfig]_vars

-----------------------------------------------------------------------------
(* loadConfig(cfgPath) from its entry: where the configuration is read.    *)
(* A path is the tuple of its components, "/" first when it is absolute;   *)
(* relative paths are relative to the working directory of the process.    *)

\* path.dirname
DirName(p) == IF Len(p) = 1 THEN <<".">> ELSE SubSeq(p, 1, Len(p) - 1)

\* path.join(dir, name), normalised: "" and "." add nothing
Join(dir, name) == IF dir \in {<<>>, <<".">>} THEN <<name>> ELSE Append(dir, name)

\* The container entrypoint's default for --config
CONFIG_FILE == <<"/", "config", "config.jsonc">>

\* Values of cfgPath
CfgPaths ==
    { <<"config.jsonc">>, <<"config.json">>, <<".", "config.jsonc">>,
      <<"conf", "config.jsonc">>, CONFIG_FILE, <<"/", "config", "config.json">> }

\* The text of a file: what JSON.parse(stripComments(text)) gives, <<>> when
\* it throws
TextOf(config) == [parsed |-> Some(config)]
NotJson == [parsed |-> None]

FileConfigs ==
    { [maxRetries |-> Num(2 * n), timeout |-> Num(2),
       items |-> <<[kinds |-> [token |-> "string", email |-> "absent", key |-> "absent",
                               zone |-> "string", record |-> "string",
                               proxied |-> "boolean"],
                    ttl |-> Num(2 * AUTO_TTL)]>>] : n \in {-1, 1, 2} }
FileTexts == {TextOf(c) : c \in FileConfigs} \cup {NotJson}

\* Where a file may be: the working directory and /config
FilePlaces ==
    { <<"config.jsonc">>, <<"config.json">>,
      CONFIG_FILE, <<"/", "config", "config.json">> }
FileSystems == UNION {[S -> FileTexts] : S \in SUBSET FilePlaces}

\* The directory loadConfig reads from
ConfigDirOf(cfgPath) ==
    IF cfgPath # <<"config.jsonc">> /\ DirName(cfgPath) # <<".">>
    THEN <<>>
    ELSE DirName(cfgPath)

\* parseConfig(rawConfig): "ok", or what throws
parseConfig(text) ==
    IF IsNull(text.parsed) THEN "syntax" ELSE validateConfig(Val(text.parsed))

InitLoad ==
    /\ items = <<>>
    /\ maxRetries = 0
    /\ timeout = 0
    /\ mainPc = "callLoadConfig"
    /\ ipPromise = NoPromise
    /\ ipFetches = 0
    /\ ts = <<>>
    /\ reported = <<>>
    /\ exitCode = None
    /\ files \in FileSystems
    /\ \E p \in CfgPaths : load = [NoLoad EXCEPT !.cfgPath = p]

\* loadConfig up to its first await: configDir, then readFile of config.jsonc
LoadConfigStart ==
    /\ mainPc = "callLoadConfig"
    /\ load' = [load EXCEPT !.configDir = Some(ConfigDirOf(load.cfgPath)),
                            !.pending = Some(Join(ConfigDirOf(load.cfgPath), "config.jsonc"))]
    /\ mainPc' = "readJsonc"
    /\ UNCHANGED <<files, items, maxRetries, timeout, ipPromise, ipFetches, ts, reported, exitCode>>

\* loadConfig once rawConfig holds the text of the file at path: parseConfig
\* returns the configuration to main, or the catch block ends the process
Parsed(path) ==
    /\ load' = [load EXCEPT !.pending = None, !.rawConfig = Some(files[path]),
                            !.source = Some(path)]
    /\ IF parseConfig(files[path]) = "ok"
       THEN /\ mainPc' = "loaded"
            /\ items' = Val(files[path].parsed).items
            /\ maxRetries' = Val(files[path].parsed).maxRetries
            /\ timeout' = Val(files[path].parsed).timeout
            /\ UNCHANGED exitCode
       ELSE /\ mainPc' = "exited"
            /\ exitCode' = Some(1)
            /\ UNCHANGED <<items, maxRetries, timeout>>

\* The read of config.jsonc settles: parse, or warn and read config.json
JsoncReadSettles ==
    /\ mainPc = "readJsonc"
    /\ IF Val(load.pending) \in DOMAIN files
       THEN Parsed(Val(load.pending))
       ELSE /\ load' = [load EXCEPT !.warned = TRUE,
                                    !.pending = Some(Join(Val(load.configDir), "config.json"))]
            /\ mainPc' = "readJson"
            /\ UNCHANGED <<items, maxRetries, timeout, exitCode>>
    /\ UNCHANGED <<files, ipPromise, ipFetches, ts, reported>>

\* The read of config.json settles: parse, or process.exit(1)
JsonReadSettles ==
    /\ mainPc = "readJson"
    /\ IF Val(load.pending) \in DOMAIN files
       THEN Parsed(Val(load.pending))
       ELSE /\ load' = [load EXCEPT !.pending = None]
            /\ mainPc' = "exited"
            /\ exitCode' = Some(1)
            /\ UNCHANGED <<items, maxRetries, timeout>>
    /\ UNCHANGED <<files, ipPromise, ipFetches, ts, reported>>

NextLoad ==
    \/ LoadConfigStart
    \/ JsoncReadSettles
    \/ JsonReadSettles

SpecLoad == InitLoad /\ [][NextLoad]_vars

-----------------------------------------------------------------------------
(* Properties *)

Compared(t) == ~IsNull(ts[t].ip)
ContentOf(t) == Val(Val(ts[t].record).content)
FetchedIp == Val(ipPromise.value)
Failed(t) == ts[t].pc = "settled" /\ ts[t].outcome = "failed"
HasLine(t, line) == \E i \in DOMAIN ts[t].logs : ts[t].logs[i] = line

\* C1: a task whose selected A/AAAA record holds exactly the fetched public IP
\* never calls updateDnsRecord, sends no PUT, and once it has compared the two
\* it has settled as already up to date.
C1_NoUpdateWhenEqual ==
    \A t \in Tasks :
        ( /\ ~IsNull(ts[t].record)
          /\ ~IsNull(Val(ts[t].record).content)
          /\ ipPromise.state = "fulfilled"
          /\ ContentOf(t) = FetchedIp )
        => /\ ts[t].updateCalls = 0
           /\ ts[t].putsSent = 0
           /\ ts[t].pc \in {"awaitIp", "settled"}
           /\ Compared(t) => /\ ts[t].pc = "settled"
                             /\ ts[t].outcome = "uptodate"
                             /\ HasLine(t, "info:upToDate")

C1_Witness ==
    \E t \in Tasks :
        /\ ts[t].outcome = "uptodate"
        /\ Compared(t)
        /\ ContentOf(t) = FetchedIp
        /\ ts[t].putsSent = 0

\* C2: a task whose selected record's content differs from the fetched public
\* IP makes exactly one updateDnsRecord call, with the fetched IP as content and
\* the item's ttl and proxied, not those of the published record.
C2_OneUpdateWhenDifferent ==
    \A t \in Tasks :
        /\ ( /\ ~IsNull(ts[t].record)
             /\ ~IsNull(Val(ts[t].record).content)
             /\ ~Compared(t) )
           => ts[t].updateCalls = 0
        /\ ( Compared(t) /\ ContentOf(t) # FetchedIp )
           => /\ ts[t].updateCalls = 1
              /\ ~IsNull(ts[t].putBody)
              /\ Val(ts[t].putBody).content = FetchedIp
              /\ Val(ts[t].putBody).ttl = items[t].ttl
              /\ Val(ts[t].putBody).proxied = items[t].proxied

C2_Witness ==
    \E t \in Tasks :
        /\ ts[t].outcome = "updated"
        /\ ContentOf(t) # FetchedIp
        /\ ts[t].updateCalls = 1
        /\ Val(ts[t].record).ttl # items[t].ttl
        /\ Val(ts[t].record).proxied # items[t].proxied
        /\ Val(ts[t].putBody).proxied = items[t].proxied

\* C3 (as claimed): counting every attempt of doRequest, a task sends at most
\* one PUT, and only when the record's content differs from the fetched IP.
C3_AtMostOnePutAttempt ==
    \A t \in Tasks :
        /\ ts[t].putsSent <= 1
        /\ ts[t].putsSent > 0 => Compared(t) /\ ContentOf(t) # FetchedIp

\* C3 (amended): a task makes at most one updateDnsRecord call; its doRequest
\* sends at least one and at most maxRetries PUT attempts; a PUT is sent only
\* when the record's content differs from the fetched IP.
C3_AtMostOneUpdateCall ==
    \A t \in Tasks :
        /\ ts[t].updateCalls <= 1
        /\ ts[t].putsSent <= ts[t].updateCalls * maxRetries
        /\ ts[t].updateCalls = 1 => ts[t].putsSent >= 1
        /\ ts[t].putsSent > 0 => Compared(t) /\ ContentOf(t) # FetchedIp

C3_Witness ==
    \E t \in Tasks :
        /\ ts[t].updateCalls = 1
        /\ ts[t].putsSent >= 2
        /\ ts[t].putsSent = maxRetries
        /\ ContentOf(t) # FetchedIp

\* C4: the tasks run side by side. A step in which one task fails changes no
\* other task; while main awaits, a task that has not settled can always take its
\* next step (once the promise it awaits has settled), whatever the others did;
\* and when main has reported, every task has reached an outcome and the error
\* lines are exactly the failed tasks.
Outcomes == {"skipped", "uptodate", "updated", "failed"}
TaskStep(t) == AttemptFails(t) \/ AttemptSucceeds(t) \/ DelayElapses(t) \/ IpObserved(t)
FailedTasks == {t \in Tasks : Failed(t)}

C4_Reported ==
    mainPc = "done" =>
        /\ \A t \in Tasks : ts[t].pc = "settled" /\ ts[t].outcome \in Outcomes
        /\ Len(reported) = Cardinality(FailedTasks)
        /\ {reported[i] : i \in DOMAIN reported} = FailedTasks

C4_NotBlocked ==
    mainPc = "awaitAll" =>
        \A t \in Tasks :
            ( /\ ts[t].pc # "settled"
              /\ ts[t].pc = "awaitIp" => ipPromise.state # "pending" )
            => ENABLED TaskStep(t)

C4_NotCancelled ==
    \A t \in Tasks :
        ( mainPc = "awaitAll" /\ ~Failed(t) /\ Failed(t)' )
        => \A u \in Tasks \ {t} : ts'[u] = ts[u]

\* C4: fan-out isolation, the three parts above together
C4_FanOutIsolation ==
    /\ [](C4_Reported /\ C4_NotBlocked)
    /\ [][C4_NotCancelled]_vars

C4_Witness ==
    /\ mainPc = "done"
    /\ Len(reported) = 1
    /\ \E t \in Tasks, u \in Tasks :
         /\ Failed(t) /\ ts[t].error = "ZoneNotFound"
         /\ ts[u].outcome = "updated"

\* C9: getOwnIp is started at most once per run, and every task that has
\* compared saw the value that one fetch resolved to.
C9_OneIpFetch ==
    /\ ipFetches <= 1
    /\ mainPc # "start" => ipFetches = 1
    /\ \A t \in Tasks :
         Compared(t) => ipPromise.state = "fulfilled" /\ ts[t].ip = ipPromise.value

C9_Witness ==
    /\ ipFetches = 1
    /\ \A t \in Tasks : Compared(t) /\ Val(ts[t].ip) = FetchedIp
    /\ Cardinality(Tasks) >= 2

\* C10: when the records listed for a task hold no record of type A or AAAA,
\* updateEntry warns and returns: the task is skipped, sends no PUT and is not
\* among the failed tasks.
NoSupportedRecord(records) ==
    \A i \in DOMAIN records :
        IsNull(records[i].type) \/ Val(records[i].type) \notin {"A", "AAAA"}

Skipped(s) ==
    /\ s.pc = "settled"
    /\ s.outcome = "skipped"
    /\ s.error = ""
    /\ s.logs # <<>> /\ s.logs[Len(s.logs)] = "warn:noRecord"
    /\ s.putsSent = 0 /\ s.updateCalls = 0

C10_SkipWithoutAddressRecord ==
    \A t \in Tasks :
        /\ ( ts[t].pc = "getDnsRecords" /\ ts[t].req.phase = "fetch" )
           => \A records \in RecordLists :
                  NoSupportedRecord(records)
                  => Skipped(AfterFetch(ts[t], items[t], Http(200, TRUE), records))
        /\ ts[t].outcome = "skipped"
           => /\ Skipped(ts[t])
              /\ IsNull(ts[t].record)
              /\ \A i \in DOMAIN reported : reported[i] # t

C10_Witness ==
    \E t \in Tasks :
        /\ mainPc = "done"
        /\ Skipped(ts[t])
        /\ reported = <<>>

\* C5: a direct doRequest that returns does so from attempt k <= maxRetries,
\* after exactly k fetches and exactly k - 1 retry delays of RETRY_DELAY each,
\* and returns the body of the response of attempt k.
C5_ReturnsAfterKCalls ==
    \A t \in Tasks :
        ts[t].pc = "returned"
        => LET k == ts[t].req.currentTry
           IN  /\ 1 <= k /\ k <= maxRetries
               /\ ts[t].req.calls = k
               /\ ts[t].req.delays = k - 1
               /\ ts[t].req.waitedMs = (k - 1) * RETRY_DELAY
               /\ ~IsNull(ts[t].result)
               /\ ts[t].result = ts[t].req.received
               /\ ts[t].error = ""

C5_Witness ==
    \E t \in Tasks :
        /\ ts[t].pc = "returned"
        /\ maxRetries >= 2
        /\ ts[t].req.calls = maxRetries
        /\ ts[t].req.delays = maxRetries - 1
        /\ Val(ts[t].result) # <<>>

\* C6: with maxRetries = n >= 1, a doRequest whose attempts all fail makes
\* exactly n fetches, never more, and then throws the exhaustion error
\* instead of returning a payload.
C6_ExhaustsAfterNCalls ==
    \A t \in Tasks :
        /\ ts[t].req.calls <= maxRetries
        /\ ( ts[t].pc = "threw" /\ maxRetries >= 1 )
           => /\ ts[t].req.calls = maxRetries
              /\ ts[t].error = "MaxRetries"
              /\ IsNull(ts[t].result)

C6_Witness ==
    \E t \in Tasks :
        /\ ts[t].pc = "threw"
        /\ maxRetries >= 2
        /\ ts[t].req.calls = maxRetries
        /\ ts[t].error = "MaxRetries"

\* C7: every failed attempt is treated alike. Whatever failed (fetch threw, a
\* status that is not ok, client errors included), the attempt is counted and
\* the retry delay is awaited; after the delay another fetch follows while
\* attempts remain; doRequest throws only after the last attempt, and only
\* the exhaustion error.
ClientError(r) == ~r.threw /\ r.status >= 400 /\ r.status < 500

C7_Delayed ==
    \A t \in Tasks :
        /\ ts[t].req.phase = "delay"
           => /\ ~IsNull(ts[t].req.last) /\ AttemptFailed(Val(ts[t].req.last))
              /\ ts[t].req.calls = ts[t].req.currentTry
              /\ ts[t].req.currentTry <= maxRetries
        /\ ts[t].pc = "threw"
           => /\ ts[t].error = "MaxRetries"
              /\ ts[t].req.currentTry = maxRetries + 1

C7_Retried ==
    \A t \in Tasks :
        /\ ( ts[t].req.phase = "fetch" /\ ts'[t] # ts[t] /\ ts'[t].req.phase # "fetch" )
           => \/ ts'[t].pc = "returned"
              \/ ts'[t].req.phase = "delay" /\ ts'[t].pc = "doRequest"
        /\ ( ts[t].req.phase = "delay" /\ ts'[t] # ts[t] )
           => IF ts[t].req.currentTry < maxRetries
              THEN /\ ts'[t].req.phase = "fetch"
                   /\ ts'[t].req.currentTry = ts[t].req.currentTry + 1
              ELSE ts'[t].pc = "threw"

\* every kind of failure is met in the delay, at every attempt
C7_AllKinds ==
    \A t \in Tasks :
        ts[t].req.phase = "fetch"
        => \A r \in AttemptOutcomes :
               AttemptFailed(r)
               => LET after == AfterFetch(ts[t], items[t], r, <<>>)
                  IN  /\ after.req.phase = "delay"
                      /\ after.req.currentTry = ts[t].req.currentTry
                      /\ after.pc = ts[t].pc

\* C7: every kind of attempt failure is retried alike, the three parts above together
C7_FailuresRetriedAlike ==
    /\ [](C7_Delayed /\ C7_AllKinds)
    /\ [][C7_Retried]_vars

C7_Witness ==
    \E t \in Tasks :
        /\ ts[t].req.phase = "delay"
        /\ ClientError(Val(ts[t].req.last))
        /\ ts[t].req.currentTry < maxRetries

\* C8 (as claimed): no attempt stays pending longer than the configured timeout.
C8_AttemptsTimeOut ==
    \A t \in Tasks :
        ts[t].req.phase = "fetch"
        => ts[t].req.elapsedMs <= Val(ts[t].client).timeoutMs

\* C11: when the record selected for a task (the first A/AAAA record of the
\* list) has no content, updateEntry throws the no-IP error at once: the task
\* fails whatever the state of the public-IP promise, never reads it, and
\* sends no PUT.
NoContentSelected(records) ==
    \E i \in DOMAIN records :
        /\ ~IsNull(records[i].type) /\ Val(records[i].type) \in {"A", "AAAA"}
        /\ IsNull(records[i].content)
        /\ \A j \in 1..(i - 1) :
               IsNull(records[j].type) \/ Val(records[j].type) \notin {"A", "AAAA"}

FailedNoContent(s) ==
    /\ s.pc = "settled"
    /\ s.outcome = "failed"
    /\ s.error = "NoIP"
    /\ IsNull(s.ip)
    /\ s.putsSent = 0 /\ s.updateCalls = 0

C11_NoContentFailsAtOnce ==
    \A t \in Tasks :
        /\ ( ts[t].pc = "getDnsRecords" /\ ts[t].req.phase = "fetch" )
           => \A records \in RecordLists :
                  NoContentSelected(records)
                  => FailedNoContent(AfterFetch(ts[t], items[t], Http(200, TRUE), records))
        /\ ts[t].error = "NoIP"
           => /\ FailedNoContent(ts[t])
              /\ ~IsNull(ts[t].record) /\ IsNull(Val(ts[t].record).content)
        /\ ( ~IsNull(ts[t].record) /\ IsNull(Val(ts[t].record).content) )
           => ts[t].error = "NoIP"

C11_Witness ==
    \E t \in Tasks :
        /\ FailedNoContent(ts[t])
        /\ ipPromise.state = "pending"
        /\ mainPc = "done"
        /\ reported = <<t>>

\* C12: getZones returns the first zone of the response, in its order, whose
\* name equals the requested name ignoring case; it throws the zone-not-found
\* error exactly when no zone of the response has such a name, the empty
\* response included.
EqualIgnoringCase(a, b) ==
    /\ Len(a) = Len(b)
    /\ \A i \in DOMAIN a : LowerChar(a[i]) = LowerChar(b[i])

Matching(zones, name) == {i \in DOMAIN zones : EqualIgnoringCase(zones[i].name, name)}

IsFirstMatch(zones, name, i) ==
    i \in Matching(zones, name) /\ \A j \in Matching(zones, name) : i <= j

\* the state of a task when the first attempt of its zones request is answered with zones
ZonesAnswered(item, zones) ==
    AfterFetch(UpdateEntryStart(TaskInit, item), item, Http(200, TRUE), zones)

C12_FirstMatchOrNotFound ==
    \A t \in Tasks :
        /\ ( ts[t].pc = "getZones" /\ ts[t].req.phase = "fetch" )
           => \A zones \in ZoneLists :
                  LET after == AfterFetch(ts[t], items[t], Http(200, TRUE), zones)
                  IN  /\ ( after.pc = "settled" /\ after.error = "ZoneNotFound" )
                         <=> Matching(zones, items[t].zone) = {}
                      /\ Matching(zones, items[t].zone) = {}
                         => after.outcome = "failed" /\ IsNull(after.zone)
                      /\ \A i \in DOMAIN zones :
                             IsFirstMatch(zones, items[t].zone, i)
                             => /\ after.zone = Some(zones[i])
                                /\ after.pc = "getDnsRecords"
                                /\ after.req.path = <<"zones", zones[i].id, "dns_records">>
        /\ ts[t].error = "ZoneNotFound" => IsNull(ts[t].zone) /\ Failed(t)
        /\ ~IsNull(ts[t].zone) => EqualIgnoringCase(Val(ts[t].zone).name, items[t].zone)

C12_Witness ==
    \E t \in Tasks, zones \in ZoneLists :
        /\ Len(zones) = 2
        /\ ~EqualIgnoringCase(zones[1].name, items[t].zone)
        /\ EqualIgnoringCase(zones[2].name, items[t].zone)
        /\ zones[2].name # items[t].zone
        /\ ts[t] = ZonesAnswered(items[t], zones)
        /\ ts[t].zone = Some(zones[2])

\* C13: when two or more zones of the response have the requested name, with
\* different ids, getZones does not throw: it warns and returns the first of them.
C13_AmbiguousZoneWarns ==
    \A t \in Tasks :
        ( ts[t].pc = "getZones" /\ ts[t].req.phase = "fetch" )
        => \A zones \in ZoneLists :
               ( \E i, j \in Matching(zones, items[t].zone) : zones[i].id # zones[j].id )
               => LET after == AfterFetch(ts[t], items[t], Http(200, TRUE), zones)
                  IN  /\ after.outcome # "failed" /\ after.error = ""
                      /\ after.pc = "getDnsRecords"
                      /\ \E i \in DOMAIN zones :
                             IsFirstMatch(zones, items[t].zone, i) /\ after.zone = Some(zones[i])
                      /\ after.logs = Append(ts[t].logs, "warn:multipleZones")

C13_Witness ==
    \E t \in Tasks, zones \in ZoneLists :
        /\ Len(zones) = 2
        /\ Matching(zones, items[t].zone) = {1, 2}
        /\ zones[1].id # zones[2].id
        /\ ts[t] = ZonesAnswered(items[t], zones)
        /\ ts[t].zone = Some(zones[1])
        /\ HasLine(t, "warn:multipleZones")

\* C14: new Cloudflare(options) throws the invalid-options error exactly when
\* the options hold neither a non-empty apiToken nor both a non-empty apiEmail
\* and a non-empty apiKey; otherwise it yields a client.
NonEmpty(o) == ~IsNull(o) /\ Len(Val(o)) >= 1

ValidCredential(options) ==
    \/ NonEmpty(options.apiToken)
    \/ NonEmpty(options.apiEmail) /\ NonEmpty(options.apiKey)

C14_InvalidOptionsIff ==
    \A t \in Tasks :
        /\ ts[t].pc = "new"
           => \A options \in OptionChoices :
                  LET made == Constructor(ts[t], options)
                  IN  /\ ( made.pc = "newThrew" /\ made.error = "InvalidOptions" )
                         <=> ~ValidCredential(options)
                      /\ ~IsNull(made.client) <=> ValidCredential(options)
        /\ ~IsNull(ts[t].options)
           => /\ ( ts[t].pc = "newThrew" /\ ts[t].error = "InvalidOptions" )
                 <=> ~ValidCredential(Val(ts[t].options))
              /\ ~IsNull(ts[t].client) <=> ValidCredential(Val(ts[t].options))
              /\ ts[t].pc = "newThrew" => ts[t].req = NoRequest

C14_Witness ==
    \E t \in Tasks :
        /\ ts[t].pc = "newThrew"
        /\ ts[t].error = "InvalidOptions"
        /\ Val(ts[t].options).apiToken = Some(<<>>)
        /\ NonEmpty(Val(ts[t].options).apiEmail)
        /\ Val(ts[t].options).apiKey = Some(<<>>)

\* C15: the type updateDnsRecord sends is computed from the content alone:
\* AAAA when the IP string contains a colon, A otherwise, whatever the type
\* of the record that is updated.
HasColon(str) == \E i \in 1..Len(str) : str[i] = ":"
TypeFor(str) == IF HasColon(str) THEN "AAAA" ELSE "A"

C15_TypeFromContent ==
    \A t \in Tasks :
        /\ ( ts[t].pc = "awaitIp" /\ mainPc = "awaitAll" )
           => \A ip \in PublicIps :
                  ip # ContentOf(t)
                  => LET after == AfterIp(ts[t], items[t], ip)
                     IN  /\ ~IsNull(after.putBody)
                         /\ Val(after.putBody).content = ip
                         /\ Val(after.putBody).type = TypeFor(ip)
                         /\ after.req.body = after.putBody
        /\ ~IsNull(ts[t].putBody)
           => /\ Val(ts[t].putBody).type = TypeFor(Val(ts[t].putBody).content)
              /\ Val(ts[t].putBody).content = FetchedIp

C15_Witness ==
    \E t \in Tasks :
        /\ ts[t].outcome = "updated"
        /\ Val(ts[t].record).type = Some("A")
        /\ HasColon(FetchedIp)
        /\ Val(ts[t].putBody).type = "AAAA"

\* C16 (as claimed): once main has reported, the exit status of the process is
\* a failure status exactly when at least one task failed.
C16_ExitStatusReflectsFailures ==
    ( mainPc = "done" /\ ~IsNull(exitCode) )
    => ( Val(exitCode) # 0 <=> FailedTasks # {} )

\* C17: main writes failure lines only after every task has settled: while a
\* task is in flight there is no line, the lines are written in one step that
\* starts with all tasks settled, and they are one line per failed task and
\* none for a task that updated, skipped or was up to date.
LinesOf(t) == {i \in DOMAIN reported : reported[i] = t}

C17_Lines ==
    /\ ( \E t \in Tasks : ts[t].pc # "settled" ) => reported = <<>>
    /\ mainPc = "done"
       => /\ AllSettled
          /\ \A t \in Tasks :
                 Cardinality(LinesOf(t)) = IF ts[t].outcome = "failed" THEN 1 ELSE 0
          /\ \A i \in DOMAIN reported : reported[i] \in Tasks
    /\ mainPc \in {"start", "awaitAll"} => reported = <<>>

C17_WrittenOnce ==
    reported' # reported
    => /\ AllSettled
       /\ mainPc = "awaitAll" /\ mainPc' = "done"
       /\ ts' = ts

\* C17: failure lines only after all tasks have settled, the two parts above together
C17_ReportAfterAllSettled ==
    /\ []C17_Lines
    /\ [][C17_WrittenOnce]_vars

C17_Witness ==
    /\ mainPc = "done"
    /\ reported = <<2>>
    /\ ts[1].outcome = "skipped"
    /\ ts[2].error = "MaxRetries"

\* C18 (as claimed): when the public-IP promise has rejected, no task has sent
\* a PUT, every settled task that had selected a record with content failed
\* with the public-IP error, and the run goes on: the process is not ended
\* before main has reported.
C18_IpRejectionNoPut ==
    ipPromise.state = "rejected"
    => \A t \in Tasks :
           /\ ts[t].putsSent = 0 /\ ts[t].updateCalls = 0
           /\ ( /\ ts[t].pc = "settled"
                /\ ~IsNull(ts[t].record)
                /\ ~IsNull(Val(ts[t].record).content) )
              => Failed(t) /\ ts[t].error = "OwnIp"

C18_IpRejectionIsPerTask ==
    /\ C18_IpRejectionNoPut
    /\ ipPromise.state = "rejected"
       => /\ mainPc \in {"awaitAll", "done"}
          /\ mainPc = "done" => AllSettled /\ exitCode = Some(0)

\* C19 (as claimed): the record a task has selected, and the record it writes,
\* has the name of the item's record and the type A or AAAA.
C19_SelectedRecordHasItemName ==
    \A t \in Tasks :
        /\ ~IsNull(ts[t].record)
           => /\ Val(ts[t].record).name = items[t].record
              /\ Val(ts[t].record).type \in {Some("A"), Some("AAAA")}
        /\ ~IsNull(ts[t].putBody) => Val(ts[t].putBody).name = items[t].record

\* C20: the steps of a task follow one another. The records query is sent in
\* the step in which the zones query succeeded, the public IP is awaited in
\* the step in which a record with content was selected, the PUT is sent in
\* the step in which the comparison found a difference, and a task never has
\* more than one request in flight.
C20_Order ==
    \A t \in Tasks :
        /\ ts[t].inFlight \in {0, 1}
        /\ ts[t].inFlight = 1 <=> ts[t].req.phase = "fetch"
        /\ ts[t].pc = "getZones"
           => IsNull(ts[t].zone) /\ IsNull(ts[t].record) /\ IsNull(ts[t].ip)
        /\ ts[t].pc = "getDnsRecords"
           => /\ ~IsNull(ts[t].zone) /\ IsNull(ts[t].record) /\ IsNull(ts[t].ip)
              /\ ts[t].req.path = <<"zones", Val(ts[t].zone).id, "dns_records">>
        /\ ts[t].pc = "awaitIp"
           => /\ ts[t].inFlight = 0 /\ IsNull(ts[t].ip)
              /\ ~IsNull(ts[t].record) /\ ~IsNull(Val(ts[t].record).content)
        /\ Compared(t)
           => ~IsNull(ts[t].record) /\ ~IsNull(Val(ts[t].record).content)
        /\ ( ts[t].pc = "updateDnsRecord" \/ ts[t].putsSent > 0 )
           => Compared(t) /\ ContentOf(t) # Val(ts[t].ip)

C20_Steps ==
    \A t \in Tasks :
        /\ ( ts'[t].pc = "getZones" /\ ts[t].pc # "getZones" ) => ts[t].pc = "init"
        /\ ( ts'[t].pc = "getDnsRecords" /\ ts[t].pc # "getDnsRecords" )
           => ts[t].pc = "getZones" /\ ts[t].req.phase = "fetch"
        /\ ( ts'[t].pc = "awaitIp" /\ ts[t].pc # "awaitIp" )
           => ts[t].pc = "getDnsRecords" /\ ts[t].req.phase = "fetch"
        /\ ( ts'[t].pc = "updateDnsRecord" /\ ts[t].pc # "updateDnsRecord" )
           => ts[t].pc = "awaitIp" /\ ipPromise.state = "fulfilled"
        /\ ts'[t].inFlight > ts[t].inFlight => ts[t].inFlight = 0

\* C20: the steps of a task are sequential, the two parts above together
C20_StepsAreSequential ==
    /\ []C20_Order
    /\ [][C20_Steps]_vars

C20_Witness ==
    \E t \in Tasks :
        /\ ts[t].pc = "updateDnsRecord"
        /\ ts[t].req.phase = "fetch"
        /\ ts[t].req.currentTry = 2
        /\ ts[t].inFlight = 1

\* C21 (as claimed): the run does not stop before main has reported: in every
\* state either all tasks have settled and main has reported, or a step of
\* the run is possible (an attempt or the public-IP fetch can complete, a
\* timer can fire, a task or main can resume).
C21_RunReachesReporting ==
    \/ AllSettled /\ mainPc \in {"done", "crashed"}
    \/ ENABLED Next

\* C22 (as claimed): the error doRequest throws after its last attempt names
\* the URL and the method of the request.
Mentions(message, part) == \E i \in DOMAIN message : message[i] = part

C22_ExhaustionNamesRequest ==
    \A t \in Tasks :
        ( ts[t].pc = "threw" /\ ts[t].error = "MaxRetries" )
        => /\ Mentions(ts[t].message, ts[t].req.path)
           /\ Mentions(ts[t].message, <<ts[t].req.type>>)

\* C23 (as claimed): every delay lasts RETRY_DELAY and a delay is waited only
\* between a failed attempt and the next one, so a request that exhausts its
\* n >= 1 attempts has waited n - 1 delays when it throws.
C23_DelayOnlyBetweenAttempts ==
    \A t \in Tasks :
        ( ts[t].pc = "threw" /\ maxRetries >= 1 )
        => /\ ts[t].req.delays = ts[t].req.calls - 1
           /\ ts[t].req.waitedMs = (ts[t].req.calls - 1) * RETRY_DELAY

\* C24 (as claimed): getZones warns only when two or more zones of the
\* response have the requested name: a response with at most one such zone
\* adds no warning, whatever other zones it holds.
C24_WarningOnlyOnCollision ==
    \A t \in Tasks :
        ( ts[t].pc = "getZones" /\ ts[t].req.phase = "fetch" )
        => \A zones \in ZoneLists :
               Cardinality(Matching(zones, items[t].zone)) <= 1
               => LET after == AfterFetch(ts[t], items[t], Http(200, TRUE), zones)
                  IN  \A i \in DOMAIN after.logs : after.logs[i] # "warn:multipleZones"

\* C25: zone-not-found is not retried. When the zones query is answered and no
\* zone of the response has the requested name, the task fails in that step
\* with no request in flight, and it never takes another step: no second
\* zones query, no records query, no PUT.
FailedZoneNotFound(s) ==
    /\ s.pc = "settled"
    /\ s.outcome = "failed"
    /\ s.error = "ZoneNotFound"
    /\ s.inFlight = 0
    /\ s.req = NoRequest
    /\ IsNull(s.zone) /\ IsNull(s.record)
    /\ s.putsSent = 0 /\ s.updateCalls = 0

C25_NotFoundEndsTask ==
    \A t \in Tasks :
        /\ ( ts[t].pc = "getZones" /\ ts[t].req.phase = "fetch" )
           => \A zones \in ZoneLists :
                  Matching(zones, items[t].zone) = {}
                  => FailedZoneNotFound(AfterFetch(ts[t], items[t], Http(200, TRUE), zones))
        /\ ts[t].error = "ZoneNotFound"
           => FailedZoneNotFound(ts[t]) /\ ~ENABLED TaskStep(t)

C25_NoStepAfterNotFound ==
    \A t \in Tasks : ts[t].error = "ZoneNotFound" => ts'[t] = ts[t]

\* C25: zone-not-found ends the task, the two parts above together
C25_ZoneNotFoundNotRetried ==
    /\ []C25_NotFoundEndsTask
    /\ [][C25_NoStepAfterNotFound]_vars

C25_Witness ==
    \E t \in Tasks :
        /\ FailedZoneNotFound(ts[t])
        /\ maxRetries = 2
        /\ mainPc = "done"
        /\ reported = <<t>>

\* C26 (as claimed): a task fails with the invalid-options error exactly when
\* its item has neither a non-empty token nor a non-empty email and key; such
\* a task sends no request and is one of main's rejected results; an item with
\* a non-empty email and key always gets a client.
SuppliesCredential(item) ==
    \/ NonEmpty(item.token)
    \/ NonEmpty(item.email) /\ NonEmpty(item.key)

C26_InvalidCredentialIff ==
    \A t \in Tasks :
        mainPc # "start"
        => /\ ( Failed(t) /\ ts[t].error = "InvalidOptions" ) <=> ~SuppliesCredential(items[t])
           /\ ( NonEmpty(items[t].email) /\ NonEmpty(items[t].key) ) => ~IsNull(ts[t].client)
           /\ ts[t].error = "InvalidOptions"
              => /\ ts[t].inFlight = 0 /\ ts[t].req = NoRequest
                 /\ mainPc = "done" => reported = <<t>>

\* C27: every request of a task carries the authentication headers made from
\* that task's own item and nothing of another item: the bearer token for a
\* token item, the email and key for an email/key item. A task's client is
\* made once, by that task, and no step of any task changes it afterwards.
OwnHeaders(h, item) ==
    IF ~IsNull(item.token)
    THEN /\ h.Authorization = Some(<<"Bearer", Val(item.token)>>)
         /\ IsNull(h.XAuthEmail) /\ IsNull(h.XAuthKey)
    ELSE /\ IsNull(h.Authorization)
         /\ h.XAuthEmail = item.email /\ h.XAuthKey = item.key

C27_OwnHeaders ==
    \A t \in Tasks :
        /\ ~IsNull(ts[t].client) => OwnHeaders(Val(ts[t].client).headers, items[t])
        /\ ts[t].req.phase = "fetch"
           => /\ ~IsNull(ts[t].req.headers)
              /\ OwnHeaders(Val(ts[t].req.headers), items[t])

C27_ClientNotMutated ==
    \A t \in Tasks :
        ts'[t].client # ts[t].client => IsNull(ts[t].client) /\ ts[t].pc = "init"

Count(logs, line) == Cardinality({i \in DOMAIN logs : logs[i] = line})

OutcomeLines(s) ==
    <<Count(s.logs, "warn:noRecord"), Count(s.logs, "info:upToDate"),
      Count(s.logs, "info:updated")>>

C28_OneLine ==
    \A t \in Tasks :
        /\ ts[t].pc = "settled" <=> ts[t].outcome \in Outcomes
        /\ ts[t].pc # "settled" => ts[t].outcome = "none"
        /\ OutcomeLines(ts[t]) =
              CASE ts[t].outcome = "skipped" -> <<1, 0, 0>>
                [] ts[t].outcome = "uptodate" -> <<0, 1, 0>>
                [] ts[t].outcome = "updated" -> <<0, 0, 1>>
                [] OTHER -> <<0, 0, 0>>
        /\ mainPc = "done"
           => Cardinality(LinesOf(t)) = IF ts[t].outcome = "failed" THEN 1 ELSE 0
        /\ ts[t].outcome = "updated" => ts[t].putsSent >= 1 /\ ts[t].updateCalls = 1

C28_UpdatedAfterPut ==
    \A t \in Tasks :
        Count(ts'[t].logs, "info:updated") # Count(ts[t].logs, "info:updated")
        => /\ ts[t].pc = "updateDnsRecord" /\ ts[t].req.phase = "fetch"
           /\ ts'[t] = AfterFetch(ts[t], items[t], Http(200, TRUE), <<>>)
           /\ ts'[t].outcome = "updated"

\* C28: one outcome and one outcome line per task, the two parts above together
C28_OneOutcomeOneLine ==
    /\ []C28_OneLine
    /\ [][C28_UpdatedAfterPut]_vars

C28_Witness ==
    \E t \in Tasks :
        /\ mainPc = "done"
        /\ ts[t].outcome = "updated"
        /\ ts[t].putsSent = 2
        /\ ts[t].logs = <<"warn:multipleZones", "info:updated">>
        /\ reported = <<>>

\* C29 (as claimed): a configuration that validateConfig accepts has a
\* maxRetries that is a non-negative integer, a positive timeout, and for
\* every item a ttl that is 1 or an integer from 60 to 86400.
IsInteger(v) == v.kind = "number" /\ v.halves % 2 = 0

WellTyped(item) ==
    /\ item.kinds.token \in {"absent", "string"}
    /\ ( item.kinds.token = "absent" /\ item.kinds.email # "absent" /\ item.kinds.key # "absent" )
       => item.kinds.email = "string" /\ item.kinds.key = "string"
    /\ item.kinds.zone = "string" /\ item.kinds.record = "string"
    /\ item.kinds.proxied = "boolean"

InRange(ttl) ==
    /\ ttl.kind = "number"
    /\ \/ ttl.halves = 2
       \/ ttl.halves >= 120 /\ ttl.halves <= 172800

UsableBearer(h) ==
    ~IsNull(h.Authorization) /\ Len(Val(h.Authorization)[2]) > 0

UsableEmailKey(h) ==
    /\ ~IsNull(h.XAuthEmail) /\ Len(Val(h.XAuthEmail)) > 0
    /\ ~IsNull(h.XAuthKey) /\ Len(Val(h.XAuthKey)) > 0

C31_OneUsableScheme ==
    \A t \in Tasks :
        ~IsNull(ts[t].client)
        => LET h == Val(ts[t].client).headers
           IN  /\ UsableBearer(h) # UsableEmailKey(h)
               /\ ~IsNull(h.Authorization) => UsableBearer(h)
               /\ IsNull(h.Authorization) \/ (IsNull(h.XAuthEmail) /\ IsNull(h.XAuthKey))

\* C32: in the axios-based doRequest a response whose status is not OK is a
\* failed attempt: after the delay another attempt is made while attempts
\* remain, the call fails only by exhaustion after maxRetries attempts, and
\* the body of a response that is not OK is never returned.
C32_NonOkIsRetried ==
    \A t \in Tasks :
        /\ ts[t].pc = "returned" => Val(ts[t].req.last).status = 200
        /\ ( ts[t].req.phase = "delay" /\ ts[t].req.calls < maxRetries )
           => AfterAxiosDelay(ts[t]).req.phase = "fetch"
        /\ ( ts[t].pc = "threw" /\ ~IsNull(ts[t].req.last) /\ ~Val(ts[t].req.last).threw )
           => ts[t].error = "MaxRetries" /\ ts[t].req.calls = maxRetries

\* C33: loadConfig(cfgPath) reads from the directory of cfgPath: config.jsonc
\* there first, config.json there only when that read failed; the process
\* ends with a non-zero code exactly when both reads fail or the text read
\* cannot be parsed or validated; for /config/config.jsonc the file read is
\* the one in /config.
C33_ReadsWhereCfgPathPoints ==
    LET dir == DirName(load.cfgPath)
        first == Join(dir, "config.jsonc")
        second == Join(dir, "config.json")
        chosen == IF first \in DOMAIN files THEN Some(first)
                  ELSE IF second \in DOMAIN files THEN Some(second)
                  ELSE None
    IN  /\ mainPc = "readJsonc" => load.pending = Some(first)
        /\ mainPc = "readJson" => load.pending = Some(second) /\ first \notin DOMAIN files
        /\ mainPc \in {"loaded", "exited"}
           => /\ load.source = chosen
              /\ mainPc = "loaded"
                 <=> ~IsNull(chosen) /\ parseConfig(files[Val(chosen)]) = "ok"
        /\ mainPc = "loaded"
           => [maxRetries |-> maxRetries, timeout |-> timeout, items |-> items]
                = Val(files[Val(load.source)].parsed)
        /\ mainPc = "exited" => ~IsNull(exitCode) /\ Val(exitCode) # 0
        /\ ( load.cfgPath = CONFIG_FILE /\ ~IsNull(load.source) )
           => DirName(Val(load.source)) = <<"/", "config">>

====
